---- MODULE Spec2Model ----
(***************************************************************************)
(* Model of the market-data fan-out gateway of NexuralFlow                 *)
(* (options-flow-scanner/websocket-server): the downstream sessions        *)
(* (main.go part of api-handlers.go), the subscription registry, the       *)
(* symbol reference registry, the broadcast worker and the Polygon         *)
(* upstream client (polygon-client.go).                                    *)
(*                                                                         *)
(* Granularity: one action per goroutine step between two points where     *)
(* another goroutine can observe or change shared state (a lock region, a  *)
(* channel operation, a read of an unlocked field).  The fields of         *)
(* PolygonClient are read and written without a lock; the model takes      *)
(* every such access as one atomic step.                                   *)
(***************************************************************************)
EXTENDS Integers, Sequences, FiniteSets, Bags, TLC

\* ---------------------------------------------------------------- bounds
\* downstream connections that can be accepted, in the order of their accept
ClientSeq == <<"c1", "c2">>
Clients == {ClientSeq[i] : i \in 1..Len(ClientSeq)}
\* client frames read by all read pumps together (SpecSteady, Spec)
MaxFrames == 2
UpFrames == 2
\* upstream data records received (SpecSteady, Spec)
MaxEvents == 2
UpEvents == 1
\* capacity of a session's send channel (256 in the program)
SendCap == 2
SlowCap == 2
\* capacity of the broadcast channel (1000 in the program)
BroadcastCap == 2

\* ------------------------------------------------------- program constants
maxRetries == 10
\* NewPolygonClient: reconnectDelay, in seconds
reconnectDelay == 5

Symbols == {"AAPL", "MSFT"}
\* initPolygon subscribes SPY, QQQ, DIA, AAPL, TSLA, NVDA; one of them is kept
defaultSymbols == <<"AAPL">>
\* symbol lists a client frame can carry
SymbolLists == {<<>>, <<"AAPL">>, <<"MSFT">>}
\* channel strings a client frame can carry
ReqChannels == {"trades"}
\* channel strings an unsubscribe frame can carry: a channel or a key
UnsubChannels == {"trades", "trades:AAPL"}
\* frames handleMessage ignores: text that is no JSON object of a request,
\* and a request with a type that is none of subscribe, unsubscribe, ping
IgnoredTypes == {"malformed", "unknown"}
\* event types of upstream data records
EventTypes == {"T", "A"}

VARIABLES
    \* ---- downstream (api-handlers.go, main.go part)
    clients,        \* set of registered clients (global clients map)
    conn,           \* conn[c]: "none" | "open" | "closed" (Client.conn)
    readPump,       \* readPump[c]: "none" | "running" | "done"
    send,           \* send[c]: buffered content of Client.send
    sendClosed,     \* sendClosed[c]: close(client.send) has run
    csubs,          \* csubs[c]: key set of Client.subscriptions
    subscriptions,  \* global subscriptions map: key -> set of clients
    polygonSymbols, \* global polygonSymbols map: symbol -> count
    handlers,       \* bag of running `go c.handleMessage` goroutines
    framesRead,     \* number of client frames read so far
    broadcast,      \* buffered content of the broadcast channel
    crashed,        \* an unrecovered panic has ended the process
    \* ---- upstream (polygon-client.go)
    mainpc,         \* position of main: "initPolygon" | "defaultSubscribe" | "serving"
    polygonClient,  \* global polygonClient: "nil" | "set"
    ws,             \* PolygonClient.ws: "none" | "open" | "closed"
    connected,      \* PolygonClient.connected
    authenticated,  \* PolygonClient.authenticated
    pcSubscriptions,\* key set of PolygonClient.subscriptions
    retryCount,     \* PolygonClient.retryCount
    reconnectTimer, \* a time.AfterFunc of scheduleReconnect is pending
    reader,         \* a readMessages goroutine is running
    connectCall,    \* caller of the Connect that sleeps in authenticate: "none" | "init" | "timer"
    timerpc,        \* reconnect callback: "idle" | "collect" | "resubscribe"
    resubSymbols,   \* reconnect callback: its local list symbols
    authReply,      \* the upstream still owes the reply to the auth frame
    wire,           \* bag of the frames written on the current upstream connection
    \* ---- history
    preDisconnect,  \* pcSubscriptions when the read task last saw the transport fail
    nextSeq,        \* number of upstream data records received
    dropped,        \* queues ("send", "broadcast") on which a send took the default branch
    slowCount,      \* slowCount[c]: sends on c.send that took the default branch, up to SlowCap
    unsubRead,      \* clients from which an unsubscribe frame was read
    lastUnsub,      \* lastUnsub[c]: channel strings whose unsubscribe frame was read
                    \* from c with no subscribe for that channel or key read since
    ignoredRead,    \* clients from which a malformed or unknown frame was read
    disconnectCalled, \* PolygonClient.Disconnect has been called
    \* ---- sweeper (cleanupStaleConnections)
    stale,          \* stale[c]: time.Since(client.lastSeen) > 120s
    sweepList,      \* the sweeper's local list stale, not yet closed
    \* ---- upstream, continued
    web,            \* the browser-side RailwayWebSocketClient and its sockets
    batch,          \* the frame the read task is parsing: its records (in), the
                    \* number of records visited (pos) and, as history, the
                    \* records handed to the message handler (handed)
    timerDelay      \* delay in seconds of the pending reconnect timer (0: none)

downVars == <<clients, conn, readPump, send, sendClosed, csubs, subscriptions,
              polygonSymbols, handlers, framesRead, broadcast, crashed>>
upVars == <<mainpc, polygonClient, ws, connected, authenticated, pcSubscriptions,
            retryCount, reconnectTimer, reader, connectCall, timerpc, resubSymbols,
            authReply, wire>>
histVars == <<preDisconnect, nextSeq, dropped, slowCount, unsubRead, lastUnsub, ignoredRead,
              disconnectCalled>>
sweepVars == <<stale, sweepList>>
serverVars == <<downVars, upVars, histVars, sweepVars, batch, timerDelay>>
vars == <<serverVars, web>>

\* ---------------------------------------------------------------- helpers
Range(s) == {s[i] : i \in 1..Len(s)}

\* Message of main.go reduced to the fields the routing depends on; seq
\* identifies the upstream record (0 for messages that carry none)
Msg(type, channel, symbols, seq) ==
    [type |-> type, channel |-> channel, symbols |-> symbols, seq |-> seq]

\* ------------------------------------------------------------ PolygonClient
\* IsConnected (polygon-client.go)
IsConnected == connected /\ authenticated

\* SubscribeSubs without the test of connected and authenticated
SubscribeSubsUnchecked(symbols) == pcSubscriptions \cup Range(symbols)

\* PolygonClient.Subscribe(symbols): the new subscriptions map
SubscribeSubs(symbols) ==
    IF ~connected \/ ~authenticated THEN pcSubscriptions
    ELSE pcSubscriptions \cup Range(symbols)

\* a frame on the upstream transport; by names the caller that wrote it
Frame(action, syms, by) == [action |-> action, syms |-> syms, by |-> by]

\* PolygonClient.Subscribe(symbols): the new content of the transport;
\* WriteMessage fails on a transport that is no longer open
SubscribeWire(symbols, by) ==
    IF ~connected \/ ~authenticated THEN wire
    ELSE IF ws = "open"
         THEN wire (+) SetToBag({Frame("subscribe", Range(symbols), by)})
         ELSE wire

\* TransformPolygonMessage: the channel of an event type
TransformChannel(eventType) ==
    CASE eventType = "T" -> "trades"
      [] eventType = "Q" -> "quotes"
      [] eventType = "A" -> "aggregates"
      [] eventType = "AM" -> "aggregates"
      [] OTHER -> "market-data"

TransformPolygonMessage(pm) ==
    Msg("market-data", TransformChannel(pm.ev), <<pm.sym>>, pm.seq)

\* symbols covered by the subscribe frames on the current connection
WireSubscribed ==
    UNION {f.syms : f \in {g \in BagToSet(wire) : g.action = "subscribe"}}

\* ------------------------------------------------- symbol reference registry
RECURSIVE AcquireCounts(_, _)
\* subscribeToPolygon, the loop: the counts after the symbols were taken in order
AcquireCounts(symbols, counts) ==
    IF symbols = <<>> THEN counts
    ELSE LET s == Head(symbols)
             next == IF s \in DOMAIN counts
                     THEN [counts EXCEPT ![s] = @ + 1]
                     ELSE (s :> 1) @@ counts
         IN AcquireCounts(Tail(symbols), next)

\* AcquireNew with the test of the count left out: every symbol is new
AcquireNewAlways(symbols, counts) == symbols

RECURSIVE AcquireNew(_, _)
\* subscribeToPolygon, the loop: newSymbols, in order
AcquireNew(symbols, counts) ==
    IF symbols = <<>> THEN <<>>
    ELSE LET s == Head(symbols)
         IN IF s \in DOMAIN counts
            THEN AcquireNew(Tail(symbols), [counts EXCEPT ![s] = @ + 1])
            ELSE <<s>> \o AcquireNew(Tail(symbols), (s :> 1) @@ counts)

\* ------------------------------------------------------------ Client methods
\* Client.subscribe: the key of a subscription
SubscribeKey(channel, symbols) ==
    IF Len(symbols) > 0 THEN channel \o ":" \o symbols[1] ELSE channel

\* Client.subscribe: does the subscription go on to subscribeToPolygon
NeedsPolygon(channel, symbols) ==
    Len(symbols) > 0 /\ channel \in {"trades", "quotes", "market-data"}

\* RegistryAdd with the insertion left out
RegistryAddNothing(reg, key, c) == reg

\* subscriptions[key][c] = true, creating the inner map when it is nil
RegistryAdd(reg, key, c) ==
    IF key \in DOMAIN reg THEN [reg EXCEPT ![key] = @ \cup {c}]
    ELSE (key :> {c}) @@ reg

\* delete(subscriptions[key], c) when the inner map is not nil
RegistryRemove(reg, key, c) ==
    IF key \in DOMAIN reg THEN [reg EXCEPT ![key] = @ \ {c}] ELSE reg

\* unregisterClient, the loop over client.subscriptions
RegistryRemoveAll(reg, keys, c) ==
    [k \in DOMAIN reg |-> IF k \in keys THEN reg[k] \ {c} ELSE reg[k]]

\* TrySend with the default branch left out and a channel that grows
\* the sends that found a full queue, counted per client up to SlowCap
CountDrops(S) ==
    [c \in Clients |-> IF c \in S /\ slowCount[c] < SlowCap
                       THEN slowCount[c] + 1 ELSE slowCount[c]]

TrySendUnbounded(q, m, cap) == Append(q, m)

\* select { case ch <- m: default: } on an open channel of capacity cap
TrySend(q, m, cap) == IF Len(q) < cap THEN Append(q, m) ELSE q

Handler(c, type, channel, symbols, pc) ==
    [client |-> c, type |-> type, channel |-> channel, symbols |-> symbols, pc |-> pc]

Running == BagToSet(handlers)
Advance(h, pc) == (handlers (-) SetToBag({h})) (+) SetToBag({[h EXCEPT !.pc = pc]})
Finish(h) == handlers (-) SetToBag({h})

Alive == ~crashed

\* the read task is not inside handleMessage
\* ------------------------------------------------ RailwayWebSocketClient
MaxSockets == 3
WebSubscriptions == 1
WebQueueCap == 2
MaxFlush == 3
maxReconnectAttempts == 10

SocketIds == 1..MaxSockets

\* the fields of a new RailwayWebSocketClient; ws = 0 is null, socks[i] is
\* the readyState of the i-th WebSocket made by connect ("none": not made)
NewRailwayWebSocketClient ==
    [ws |-> 0,
     socks |-> [i \in SocketIds |-> "none"],
     status |-> "disconnected",
     subscriptions |-> 0,
     reconnectAttempts |-> 0,
     reconnectTimer |-> FALSE,
     heartbeatTimer |-> FALSE,
     messageQueue |-> <<>>,
     flushing |-> FALSE,        \* flushMessageQueue is in its while loop
     flushLen |-> 0,            \* history: length of the queue when the loop began
     flushIter |-> 0,           \* history: turns of the loop, up to MaxFlush
     disconnectCalled |-> FALSE \* history: disconnect() was the last call from outside
    ]

NoBatch == [in |-> <<>>, pos |-> 0, handed |-> <<>>]
BatchIdle == batch.pos = Len(batch.in)

\* ===================================================================== Init
Init ==
    /\ clients = {}
    /\ conn = [c \in Clients |-> "none"]
    /\ readPump = [c \in Clients |-> "none"]
    /\ send = [c \in Clients |-> <<>>]
    /\ sendClosed = [c \in Clients |-> FALSE]
    /\ csubs = [c \in Clients |-> {}]
    /\ subscriptions = <<>>
    /\ polygonSymbols = <<>>
    /\ handlers = EmptyBag
    /\ framesRead = 0
    /\ broadcast = <<>>
    /\ crashed = FALSE
    /\ mainpc = "initPolygon"
    /\ polygonClient = "nil"
    /\ ws = "none"
    /\ connected = FALSE
    /\ authenticated = FALSE
    /\ pcSubscriptions = {}
    /\ retryCount = 0
    /\ reconnectTimer = FALSE
    /\ reader = FALSE
    /\ connectCall = "none"
    /\ timerpc = "idle"
    /\ resubSymbols = <<>>
    /\ authReply = FALSE
    /\ wire = EmptyBag
    /\ preDisconnect = {}
    /\ nextSeq = 0
    /\ dropped = {}
    /\ slowCount = [c \in Clients |-> 0]
    /\ unsubRead = {}
    /\ lastUnsub = [c \in Clients |-> {}]
    /\ ignoredRead = {}
    /\ disconnectCalled = FALSE
    /\ batch = NoBatch
    /\ timerDelay = 0
    /\ web = NewRailwayWebSocketClient
    /\ stale = [c \in Clients |-> FALSE]
    /\ sweepList = {}

\* ============================================================== downstream
\* handleWebSocket: upgrade, create the client, registerClient, start the pumps
HandleWebSocket(c) ==
    /\ Alive /\ mainpc = "serving"
    /\ conn[c] = "none"
    /\ \A i \in 1..Len(ClientSeq) :
           ClientSeq[i] = c => \A j \in 1..(i - 1) : conn[ClientSeq[j]] # "none"
    /\ conn' = [conn EXCEPT ![c] = "open"]
    /\ clients' = clients \cup {c}
    /\ readPump' = [readPump EXCEPT ![c] = "running"]
    /\ UNCHANGED <<send, sendClosed, csubs, subscriptions, polygonSymbols, handlers,
                   framesRead, broadcast, crashed, upVars, histVars, sweepVars, batch, web, timerDelay>>

\* readPump, one turn of the loop: ReadMessage returns a frame and the
\* frame goes to a new goroutine (go c.handleMessage(message))
ReadPumpFrame(c, type, channel, symbols) ==
    /\ Alive
    /\ readPump[c] = "running" /\ conn[c] = "open"
    /\ framesRead' = framesRead + 1
    /\ handlers' = handlers (+) SetToBag({Handler(c, type, channel, symbols, "start")})
    /\ stale' = [stale EXCEPT ![c] = FALSE]
    /\ unsubRead' = IF type = "unsubscribe" THEN unsubRead \cup {c} ELSE unsubRead
    /\ lastUnsub' = [lastUnsub EXCEPT ![c] =
                         IF type = "unsubscribe" THEN @ \cup {channel}
                         ELSE IF type = "subscribe"
                              THEN @ \ {channel, SubscribeKey(channel, symbols)}
                              ELSE @]
    /\ ignoredRead' = IF type \in IgnoredTypes THEN ignoredRead \cup {c} ELSE ignoredRead
    /\ UNCHANGED <<clients, conn, readPump, send, sendClosed, csubs, subscriptions,
                   polygonSymbols, broadcast, crashed, upVars, preDisconnect,
                   nextSeq, dropped, slowCount, disconnectCalled, sweepList, batch, web, timerDelay>>

\* the transport of a client is closed: by the peer, by the sweeper
\* (cleanupStaleConnections) or by the write pump after a write error
ConnClosed(c) ==
    /\ Alive
    /\ conn[c] = "open"
    /\ conn' = [conn EXCEPT ![c] = "closed"]
    /\ UNCHANGED <<clients, readPump, send, sendClosed, csubs, subscriptions,
                   polygonSymbols, handlers, framesRead, broadcast, crashed,
                   upVars, histVars, sweepVars, batch, web, timerDelay>>

\* the state unregisterClient works on: the clients map, the registry and
\* the number of times close(client.send) has run
Registered ==
    [clients |-> clients, subscriptions |-> subscriptions,
     closes |-> [c \in Clients |-> IF sendClosed[c] THEN 1 ELSE 0]]

\* UnregisterClient with the test of the clients map left out
UnregisterClientUnguarded(st, c) ==
    [clients |-> st.clients \ {c},
     subscriptions |-> RegistryRemoveAll(st.subscriptions, csubs[c], c),
     closes |-> [st.closes EXCEPT ![c] = @ + 1]]

\* unregisterClient(client) as a function of that state
UnregisterClient(st, c) ==
    IF c \in st.clients
    THEN [clients |-> st.clients \ {c},
          subscriptions |-> RegistryRemoveAll(st.subscriptions, csubs[c], c),
          closes |-> [st.closes EXCEPT ![c] = @ + 1]]
    ELSE st

\* readPump: ReadMessage fails, the loop ends and the deferred function runs
\* unregisterClient(c) and c.conn.Close(); the close of a channel that is
\* closed already panics
ReadPumpExit(c) ==
    /\ Alive
    /\ readPump[c] = "running" /\ conn[c] = "closed"
    /\ readPump' = [readPump EXCEPT ![c] = "done"]
    /\ LET st == UnregisterClient(Registered, c)
       IN /\ subscriptions' = st.subscriptions
          /\ clients' = st.clients
          /\ sendClosed' = [x \in Clients |-> st.closes[x] > 0]
          /\ crashed' = (st.closes[c] > 1)
    /\ UNCHANGED <<conn, send, csubs, polygonSymbols, handlers, framesRead,
                   broadcast, upVars, histVars, sweepVars, batch, web, timerDelay>>

\* writePump: one message is taken from c.send and written to the transport
WritePump(c) ==
    /\ Alive
    /\ conn[c] = "open"
    /\ send[c] # <<>>
    /\ send' = [send EXCEPT ![c] = Tail(@)]
    /\ UNCHANGED <<clients, conn, readPump, sendClosed, csubs, subscriptions,
                   polygonSymbols, handlers, framesRead, broadcast, crashed,
                   upVars, histVars, sweepVars, batch, web, timerDelay>>

\* Client.subscribe, first lock region: c.subscriptions[key] = true
SubscribeLocal(h) ==
    /\ Alive
    /\ h \in Running /\ h.type = "subscribe" /\ h.pc = "start"
    /\ csubs' = [csubs EXCEPT ![h.client] = @ \cup {SubscribeKey(h.channel, h.symbols)}]
    /\ handlers' = Advance(h, "global")
    /\ UNCHANGED <<clients, conn, readPump, send, sendClosed, subscriptions,
                   polygonSymbols, framesRead, broadcast, crashed, upVars, histVars, sweepVars, batch, web, timerDelay>>

\* Client.subscribe, second lock region: subscriptions[key][c] = true
SubscribeGlobal(h) ==
    /\ Alive
    /\ h \in Running /\ h.type = "subscribe" /\ h.pc = "global"
    /\ subscriptions' = RegistryAdd(subscriptions, SubscribeKey(h.channel, h.symbols), h.client)
    /\ handlers' = Advance(h, IF NeedsPolygon(h.channel, h.symbols) THEN "polygon" ELSE "send")
    /\ UNCHANGED <<clients, conn, readPump, send, sendClosed, csubs,
                   polygonSymbols, framesRead, broadcast, crashed, upVars, histVars, sweepVars, batch, web, timerDelay>>

\* subscribeToPolygon, the test before the lock:
\* polygonClient == nil || !polygonClient.IsConnected()
SubscribeToPolygonCheck(h) ==
    /\ Alive
    /\ h \in Running /\ h.type = "subscribe" /\ h.pc = "polygon"
    /\ handlers' = Advance(h, IF polygonClient = "nil" \/ ~IsConnected THEN "send" ELSE "locked")
    /\ UNCHANGED <<clients, conn, readPump, send, sendClosed, csubs, subscriptions,
                   polygonSymbols, framesRead, broadcast, crashed, upVars, histVars, sweepVars, batch, web, timerDelay>>

\* subscribeToPolygon under polygonSymbolsLock: the counts, then
\* polygonClient.Subscribe(newSymbols) when there are new symbols
SubscribeToPolygon(h) ==
    /\ Alive
    /\ h \in Running /\ h.type = "subscribe" /\ h.pc = "locked"
    /\ polygonSymbols' = AcquireCounts(h.symbols, polygonSymbols)
    /\ LET newSymbols == AcquireNew(h.symbols, polygonSymbols)
       IN IF Len(newSymbols) > 0
          THEN /\ pcSubscriptions' = SubscribeSubs(newSymbols)
               /\ wire' = SubscribeWire(newSymbols, "subscribeToPolygon")
          ELSE UNCHANGED <<pcSubscriptions, wire>>
    /\ handlers' = Advance(h, "send")
    /\ UNCHANGED <<clients, conn, readPump, send, sendClosed, csubs, subscriptions,
                   framesRead, broadcast, crashed, mainpc, polygonClient, ws,
                   connected, authenticated, retryCount, reconnectTimer, reader,
                   connectCall, timerpc, resubSymbols, authReply, histVars, sweepVars, batch, web, timerDelay>>

\* Client.unsubscribe, first lock region: delete(c.subscriptions, channel)
UnsubscribeLocal(h) ==
    /\ Alive
    /\ h \in Running /\ h.type = "unsubscribe" /\ h.pc = "start"
    /\ csubs' = [csubs EXCEPT ![h.client] = @ \ {h.channel}]
    /\ handlers' = Advance(h, "global")
    /\ UNCHANGED <<clients, conn, readPump, send, sendClosed, subscriptions,
                   polygonSymbols, framesRead, broadcast, crashed, upVars, histVars, sweepVars, batch, web, timerDelay>>

\* Client.unsubscribe, second lock region: delete(subscriptions[channel], c)
UnsubscribeGlobal(h) ==
    /\ Alive
    /\ h \in Running /\ h.type = "unsubscribe" /\ h.pc = "global"
    /\ subscriptions' = RegistryRemove(subscriptions, h.channel, h.client)
    /\ handlers' = Advance(h, "send")
    /\ UNCHANGED <<clients, conn, readPump, send, sendClosed, csubs,
                   polygonSymbols, framesRead, broadcast, crashed, upVars, histVars, sweepVars, batch, web, timerDelay>>

\* HandleIgnored that closes the connection of the client
HandleIgnoredClose(h) ==
    /\ Alive
    /\ h \in Running /\ h.type \in IgnoredTypes /\ h.pc = "start"
    /\ handlers' = Finish(h)
    /\ conn' = [conn EXCEPT ![h.client] = "closed"]
    /\ UNCHANGED <<clients, readPump, send, sendClosed, csubs, subscriptions,
                   polygonSymbols, framesRead, broadcast, crashed, upVars, histVars,
                   sweepVars, batch, web, timerDelay>>

\* handleMessage for a frame that json.Unmarshal rejects (log, return) or
\* whose type is unknown (the default case: log)
HandleIgnored(h) ==
    /\ Alive
    /\ h \in Running /\ h.type \in IgnoredTypes /\ h.pc = "start"
    /\ handlers' = Finish(h)
    /\ UNCHANGED <<clients, conn, readPump, send, sendClosed, csubs, subscriptions,
                   polygonSymbols, framesRead, broadcast, crashed, upVars, histVars,
                   sweepVars, batch, web, timerDelay>>

\* Reply with the pong of a ping left out
ReplyConfirmOnly(h) ==
    CASE h.type = "subscribe" -> Msg("subscribed", h.channel, h.symbols, 0)
      [] OTHER -> Msg("unsubscribed", h.channel, <<>>, 0)

\* the message a handler sends at its end
Reply(h) ==
    CASE h.type = "subscribe" -> Msg("subscribed", h.channel, h.symbols, 0)
      [] h.type = "unsubscribe" -> Msg("unsubscribed", h.channel, <<>>, 0)
      [] OTHER -> Msg("pong", "", <<>>, 0)

\* Client.sendMessage: a non-blocking send on c.send; the send panics when
\* the channel was closed by unregisterClient
SendMessage(h) ==
    /\ Alive
    /\ h \in Running
    /\ \/ h.pc = "send"
       \/ h.type = "ping" /\ h.pc = "start"
    /\ IF sendClosed[h.client]
       THEN /\ crashed' = TRUE
            /\ UNCHANGED <<send, dropped, slowCount>>
       ELSE /\ send' = [send EXCEPT ![h.client] = TrySend(@, Reply(h), SendCap)]
            /\ dropped' = IF Len(send[h.client]) >= SendCap
                          THEN dropped \cup {"send"} ELSE dropped
            /\ slowCount' = CountDrops({c \in {h.client} : Len(send[c]) >= SendCap})
            /\ UNCHANGED crashed
    /\ handlers' = Finish(h)
    /\ UNCHANGED <<clients, conn, readPump, sendClosed, csubs, subscriptions,
                   polygonSymbols, framesRead, broadcast, upVars, preDisconnect,
                   nextSeq, unsubRead, lastUnsub, ignoredRead, disconnectCalled, sweepVars,
                   batch, web, timerDelay>>

\* handleMessages, one turn of the loop: take a message from broadcast and
\* try to send it to every client under subscriptions[msg.Channel].  A send
\* on a closed channel panics; the clients the range visited before it
\* (any subset, the order of a map range is not fixed) have the message.
HandleMessages ==
    /\ Alive /\ mainpc = "serving"
    /\ broadcast # <<>>
    /\ LET msg == Head(broadcast)
           subscribedClients == IF msg.channel \in DOMAIN subscriptions
                                THEN subscriptions[msg.channel] ELSE {}
           closed == {c \in subscribedClients : sendClosed[c]}
           full(S) == {c \in S : Len(send[c]) >= SendCap}
       IN IF closed = {}
          THEN /\ send' = [c \in Clients |->
                              IF c \in subscribedClients
                              THEN TrySend(send[c], msg, SendCap) ELSE send[c]]
               /\ dropped' = IF full(subscribedClients) # {}
                             THEN dropped \cup {"send"} ELSE dropped
               /\ slowCount' = CountDrops(full(subscribedClients))
               /\ UNCHANGED crashed
          ELSE /\ \E visited \in SUBSET (subscribedClients \ closed) :
                      /\ send' = [c \in Clients |->
                                     IF c \in visited
                                     THEN TrySend(send[c], msg, SendCap) ELSE send[c]]
                      /\ dropped' = IF full(visited) # {}
                                    THEN dropped \cup {"send"} ELSE dropped
                      /\ slowCount' = CountDrops(full(visited))
               /\ crashed' = TRUE
    /\ broadcast' = Tail(broadcast)
    /\ UNCHANGED <<clients, conn, readPump, sendClosed, csubs, subscriptions,
                   polygonSymbols, handlers, framesRead, upVars, preDisconnect,
                   nextSeq, unsubRead, lastUnsub, ignoredRead, disconnectCalled, sweepVars,
                   batch, web, timerDelay>>

\* ----------------------------------------------------------------- sweeper
\* time passes without a frame or a pong of the client: lastSeen is now
\* older than 120s
BecomeStale(c) ==
    /\ Alive
    /\ conn[c] = "open" /\ ~stale[c]
    /\ stale' = [stale EXCEPT ![c] = TRUE]
    /\ UNCHANGED <<downVars, upVars, histVars, sweepList, batch, web, timerDelay>>

\* readPump, the pong handler: c.lastSeen = time.Now()
PongHandler(c) ==
    /\ Alive
    /\ readPump[c] = "running" /\ conn[c] = "open" /\ stale[c]
    /\ stale' = [stale EXCEPT ![c] = FALSE]
    /\ UNCHANGED <<downVars, upVars, histVars, sweepList, batch, web, timerDelay>>

\* cleanupStaleConnections, a tick: under clientsLock.RLock the registered
\* clients with time.Since(lastSeen) > 120s are collected in stale
SweepCollect ==
    /\ Alive /\ mainpc = "serving"
    /\ sweepList = {}
    /\ {c \in clients : stale[c]} # {}
    /\ sweepList' = {c \in clients : stale[c]}
    /\ UNCHANGED <<downVars, upVars, histVars, stale, batch, web, timerDelay>>

\* cleanupStaleConnections, the loop over stale: client.conn.Close()
SweepClose(c) ==
    /\ Alive
    /\ c \in sweepList
    /\ sweepList' = sweepList \ {c}
    /\ conn' = [conn EXCEPT ![c] = "closed"]
    /\ UNCHANGED <<clients, readPump, send, sendClosed, csubs, subscriptions,
                   polygonSymbols, handlers, framesRead, broadcast, crashed,
                   upVars, histVars, stale, batch, web, timerDelay>>

\* ================================================================ upstream
\* initPolygon: POLYGON_API_KEY is empty, the integration stays disabled
InitPolygonNoKey ==
    /\ Alive
    /\ mainpc = "initPolygon" /\ connectCall = "none"
    /\ mainpc' = "serving"
    /\ UNCHANGED <<downVars, polygonClient, ws, connected, authenticated,
                   pcSubscriptions, retryCount, reconnectTimer, reader,
                   connectCall, timerpc, resubSymbols, authReply, wire, histVars, sweepVars, batch, web, timerDelay>>

\* Connect up to the sleep of authenticate, for a dial that succeeds: the
\* transport is open, connected = true, retryCount = 0, the read task is
\* started and the auth frame is written
ConnectDialed(caller) ==
    /\ ws' = "open"
    /\ connected' = TRUE
    /\ retryCount' = 0
    /\ reader' = TRUE
    /\ wire' = SetToBag({Frame("auth", {}, "authenticate")})
    /\ authReply' = TRUE
    /\ connectCall' = caller

\* initPolygon: NewPolygonClient and Connect, up to the sleep of authenticate
\* or to the error of a dial that fails
InitPolygonConnect(ok) ==
    /\ Alive
    /\ mainpc = "initPolygon" /\ connectCall = "none"
    /\ IF ok
       THEN /\ ConnectDialed("init")
            /\ polygonClient' = "set"
            /\ UNCHANGED mainpc
       ELSE /\ polygonClient' = "nil"
            /\ mainpc' = "serving"
            /\ UNCHANGED <<ws, connected, retryCount, reader, wire, authReply, connectCall>>
    /\ UNCHANGED <<downVars, authenticated, pcSubscriptions, reconnectTimer,
                   timerpc, resubSymbols, histVars, sweepVars, batch, web, timerDelay>>

\* readMessages -> handleMessage -> handleStatusMessage: the reply to the
\* auth frame arrives
ReadStatus(status) ==
    /\ Alive
    /\ reader /\ ws = "open" /\ authReply /\ BatchIdle
    /\ authReply' = FALSE
    /\ authenticated' = (status = "auth_success")
    /\ UNCHANGED <<downVars, mainpc, polygonClient, ws, connected, pcSubscriptions,
                   retryCount, reconnectTimer, reader, connectCall, timerpc,
                   resubSymbols, wire, histVars, sweepVars, batch, web, timerDelay>>

\* Connect after the sleep of authenticate: nil when authenticated is set,
\* else pc.ws.Close() and an error.  initPolygon drops the client on an
\* error; the reconnect callback returns on an error.
ConnectReturn ==
    /\ Alive
    /\ connectCall # "none"
    /\ connectCall' = "none"
    /\ IF authenticated
       THEN /\ UNCHANGED <<ws, polygonClient>>
            /\ mainpc' = IF connectCall = "init" THEN "defaultSubscribe" ELSE mainpc
            /\ timerpc' = IF connectCall = "timer" THEN "collect" ELSE timerpc
       ELSE /\ ws' = "closed"
            /\ polygonClient' = IF connectCall = "init" THEN "nil" ELSE polygonClient
            /\ mainpc' = IF connectCall = "init" THEN "serving" ELSE mainpc
            /\ UNCHANGED timerpc
    /\ UNCHANGED <<downVars, connected, authenticated, pcSubscriptions, retryCount,
                   reconnectTimer, reader, resubSymbols, authReply, wire, histVars, sweepVars, batch, web, timerDelay>>

\* initPolygon: polygonClient.Subscribe(defaultSymbols)
InitPolygonSubscribe ==
    /\ Alive
    /\ mainpc = "defaultSubscribe"
    /\ mainpc' = "serving"
    /\ pcSubscriptions' = SubscribeSubs(defaultSymbols)
    /\ wire' = SubscribeWire(defaultSymbols, "initPolygon")
    /\ UNCHANGED <<downVars, polygonClient, ws, connected, authenticated, retryCount,
                   reconnectTimer, reader, connectCall, timerpc, resubSymbols, authReply, histVars, sweepVars, batch, web, timerDelay>>

\* the upstream transport fails (peer close, network error)
TransportLost ==
    /\ Alive
    /\ ws = "open"
    /\ ws' = "closed"
    /\ UNCHANGED <<downVars, mainpc, polygonClient, connected, authenticated,
                   pcSubscriptions, retryCount, reconnectTimer, reader, connectCall,
                   timerpc, resubSymbols, authReply, wire, histVars, sweepVars, batch, web, timerDelay>>

\* ReconnectDelay with the delay doubled
ReconnectDelayDouble(n) == 2 * reconnectDelay * n

\* scheduleReconnect: delay := pc.reconnectDelay * time.Duration(pc.retryCount)
ReconnectDelay(n) == reconnectDelay * n

\* readMessages: ReadMessage fails, the loop ends and the deferred function
\* clears connected and authenticated and runs scheduleReconnect (up to the
\* time.AfterFunc)
ReadMessagesExit ==
    /\ Alive
    /\ reader /\ ws = "closed" /\ BatchIdle
    /\ reader' = FALSE
    /\ connected' = FALSE
    /\ authenticated' = FALSE
    /\ authReply' = FALSE
    /\ preDisconnect' = pcSubscriptions
    /\ IF retryCount >= maxRetries
       THEN UNCHANGED <<retryCount, reconnectTimer, timerDelay>>
       ELSE /\ retryCount' = retryCount + 1
            /\ reconnectTimer' = TRUE
            /\ timerDelay' = ReconnectDelay(retryCount + 1)
    /\ UNCHANGED <<downVars, mainpc, polygonClient, ws, pcSubscriptions, connectCall,
                   timerpc, resubSymbols, wire, nextSeq, dropped, slowCount, unsubRead, lastUnsub,
                   ignoredRead, disconnectCalled, sweepVars, batch, web>>

\* the reconnect timer fires: the callback calls Connect, up to the sleep
\* of authenticate or to the return after a dial that fails.  The delay of
\* the timer (5s or more) is longer than the sleep of authenticate (2s), so
\* no other Connect is running.
ReconnectFire(ok) ==
    /\ Alive
    /\ reconnectTimer /\ connectCall = "none" /\ timerpc = "idle"
    /\ reconnectTimer' = FALSE
    /\ timerDelay' = 0
    /\ IF ok
       THEN ConnectDialed("timer")
       ELSE UNCHANGED <<ws, connected, retryCount, reader, wire, authReply, connectCall>>
    /\ UNCHANGED <<downVars, mainpc, polygonClient, authenticated, pcSubscriptions,
                   timerpc, resubSymbols, histVars, sweepVars, batch, web>>

\* ResubscribeSymbols with the loop over pc.subscriptions left out
ResubscribeSymbolsNone == <<>>

\* the reconnect callback: the list made of the keys of pc.subscriptions
ResubscribeSymbols ==
    CHOOSE q \in [1..Cardinality(pcSubscriptions) -> pcSubscriptions] :
        Range(q) = pcSubscriptions

\* the reconnect callback after Connect returned nil: the loop that
\* collects the keys of pc.subscriptions in symbols
ResubscribeCollect ==
    /\ Alive
    /\ timerpc = "collect"
    /\ timerpc' = "resubscribe"
    /\ resubSymbols' = ResubscribeSymbols
    /\ UNCHANGED <<downVars, mainpc, polygonClient, ws, connected, authenticated,
                   pcSubscriptions, retryCount, reconnectTimer, reader, connectCall,
                   authReply, wire, histVars, sweepVars, batch, web, timerDelay>>

\* the reconnect callback: pc.Subscribe(symbols) when symbols is not empty
Resubscribe ==
    /\ Alive
    /\ timerpc = "resubscribe"
    /\ timerpc' = "idle"
    /\ resubSymbols' = <<>>
    /\ IF Len(resubSymbols) > 0
       THEN /\ pcSubscriptions' = SubscribeSubs(resubSymbols)
            /\ wire' = SubscribeWire(resubSymbols, "scheduleReconnect")
       ELSE UNCHANGED <<pcSubscriptions, wire>>
    /\ UNCHANGED <<downVars, mainpc, polygonClient, ws, connected, authenticated,
                   retryCount, reconnectTimer, reader, connectCall, authReply, histVars, sweepVars, batch, web, timerDelay>>

\* pc.subscriptions is a map that no lock protects: the reconnect callback
\* (the range of its loop, the writes of its Subscribe) runs beside the
\* Subscribe of a handler or of initPolygon.  The Go runtime ends the
\* process with a fatal error when it detects the concurrent map access;
\* the outcomes where it does not are the interleavings of the other actions.
SubscriptionsRace ==
    /\ Alive
    /\ \/ timerpc = "collect"
       \/ timerpc = "resubscribe" /\ resubSymbols # <<>> /\ IsConnected
    /\ \/ mainpc = "defaultSubscribe" /\ IsConnected
       \/ \E h \in Running : /\ h.type = "subscribe" /\ h.pc = "locked"
                             /\ Len(AcquireNew(h.symbols, polygonSymbols)) > 0
                             /\ IsConnected
    /\ crashed' = TRUE
    /\ UNCHANGED <<clients, conn, readPump, send, sendClosed, csubs, subscriptions,
                   polygonSymbols, handlers, framesRead, broadcast, upVars, histVars, sweepVars, batch, web, timerDelay>>

\* BroadcastMessage that enqueues whatever the length of the channel
BroadcastMessageUnbounded(msg) == Append(broadcast, msg)

\* BroadcastMessage that puts the message in front of the waiting ones
BroadcastMessageFront(msg) ==
    IF Len(broadcast) < BroadcastCap THEN <<msg>> \o broadcast ELSE broadcast

\* broadcastMessage: a non-blocking send on the broadcast channel
BroadcastMessage(msg) == TrySend(broadcast, msg, BroadcastCap)

\* readMessages -> handleMessage -> handleDataMessage -> handlePolygonMessage:
\* a data record of a symbol subscribed on this connection is transformed
\* and handed to broadcastMessage
ReadData(ev, sym) ==
    /\ Alive
    /\ reader /\ ws = "open" /\ BatchIdle
    /\ sym \in WireSubscribed
    /\ nextSeq' = nextSeq + 1
    /\ broadcast' = BroadcastMessage(
           TransformPolygonMessage([ev |-> ev, sym |-> sym, seq |-> nextSeq + 1]))
    /\ dropped' = IF Len(broadcast) >= BroadcastCap
                  THEN dropped \cup {"broadcast"} ELSE dropped
    /\ UNCHANGED <<clients, conn, readPump, send, sendClosed, csubs, subscriptions,
                   polygonSymbols, handlers, framesRead, crashed, upVars,
                   preDisconnect, slowCount, unsubRead, lastUnsub, ignoredRead, disconnectCalled,
                   sweepVars,
                   batch, web, timerDelay>>

\* ------------------------------------------------------- upstream batches
\* a record of an upstream frame: a data record, a JSON value that does not
\* decode into the record structures, or text that is no JSON
DataRecord(ev, sym) == [kind |-> "data", ev |-> ev, sym |-> sym]
Undecodable == [kind |-> "undecodable", ev |-> "", sym |-> ""]
Syntax == [kind |-> "syntax", ev |-> "", sym |-> ""]

\* handleMessage, json.Unmarshal(data, &messages): the frame is rejected
\* whole when it is no JSON array, else the loop starts at its first record
ReadBatch(b) ==
    /\ Alive
    /\ reader /\ ws = "open" /\ BatchIdle
    /\ \A i \in 1..Len(b) : b[i].kind = "data" => b[i].sym \in WireSubscribed
    /\ batch' = [in |-> b, handed |-> <<>>,
                 pos |-> IF \E i \in 1..Len(b) : b[i].kind = "syntax"
                         THEN Len(b) ELSE 0]
    /\ UNCHANGED <<downVars, upVars, histVars, sweepVars, timerDelay, web>>

\* ParseRecord that gives up the frame at a record that does not decode
ParseRecordStop ==
    /\ Alive
    /\ ~BatchIdle
    /\ LET rec == batch.in[batch.pos + 1]
       IN IF rec.kind = "data"
          THEN /\ nextSeq' = nextSeq + 1
               /\ broadcast' = BroadcastMessage(
                      TransformPolygonMessage([ev |-> rec.ev, sym |-> rec.sym,
                                               seq |-> nextSeq + 1]))
               /\ dropped' = IF Len(broadcast) >= BroadcastCap
                             THEN dropped \cup {"broadcast"} ELSE dropped
               /\ batch' = [batch EXCEPT !.pos = @ + 1, !.handed = Append(@, rec)]
          ELSE /\ batch' = [batch EXCEPT !.pos = Len(batch.in)]
               /\ UNCHANGED <<nextSeq, broadcast, dropped>>
    /\ UNCHANGED <<clients, conn, readPump, send, sendClosed, csubs, subscriptions,
                   polygonSymbols, handlers, framesRead, crashed, upVars,
                   preDisconnect, slowCount, unsubRead, lastUnsub, ignoredRead, disconnectCalled,
                   sweepVars,
                   timerDelay, web>>

\* handleMessage, one turn of the loop over messages: a record that does
\* not decode is skipped (continue, or the return of handleDataMessage), a
\* data record goes through handleDataMessage and handlePolygonMessage to
\* broadcastMessage
ParseRecord ==
    /\ Alive
    /\ ~BatchIdle
    /\ LET rec == batch.in[batch.pos + 1]
       IN IF rec.kind = "data"
          THEN /\ nextSeq' = nextSeq + 1
               /\ broadcast' = BroadcastMessage(
                      TransformPolygonMessage([ev |-> rec.ev, sym |-> rec.sym,
                                               seq |-> nextSeq + 1]))
               /\ dropped' = IF Len(broadcast) >= BroadcastCap
                             THEN dropped \cup {"broadcast"} ELSE dropped
               /\ batch' = [batch EXCEPT !.pos = @ + 1, !.handed = Append(@, rec)]
          ELSE /\ batch' = [batch EXCEPT !.pos = @ + 1]
               /\ UNCHANGED <<nextSeq, broadcast, dropped>>
    /\ UNCHANGED <<clients, conn, readPump, send, sendClosed, csubs, subscriptions,
                   polygonSymbols, handlers, framesRead, crashed, upVars,
                   preDisconnect, slowCount, unsubRead, lastUnsub, ignoredRead, disconnectCalled,
                   sweepVars,
                   timerDelay, web>>

\* ------------------------------------------------------------- Disconnect
\* PolygonClient.Disconnect: stop the timer, close the transport, clear
\* connected and authenticated
Disconnect ==
    /\ Alive
    /\ ws # "none" /\ ~disconnectCalled
    /\ disconnectCalled' = TRUE
    /\ reconnectTimer' = FALSE
    /\ timerDelay' = 0
    /\ ws' = "closed"
    /\ connected' = FALSE
    /\ authenticated' = FALSE
    /\ UNCHANGED <<downVars, mainpc, polygonClient, pcSubscriptions, retryCount,
                   reader, connectCall, timerpc, resubSymbols, authReply, wire,
                   preDisconnect, nextSeq, dropped, slowCount, unsubRead, lastUnsub, ignoredRead,
                   sweepVars, batch, web>>

\* ------------------------------------------------- unsubscribeFromPolygon
\* ReleaseCounts that decrements without a look at the count
ReleaseCountsBlind(symbols, counts) ==
    [s \in DOMAIN counts |->
        counts[s] - Cardinality({i \in 1..Len(symbols) : symbols[i] = s})]

RECURSIVE ReleaseCounts(_, _)
\* unsubscribeFromPolygon, the loop: the counts after the symbols were
\* released in order
ReleaseCounts(symbols, counts) ==
    IF symbols = <<>> THEN counts
    ELSE LET s == Head(symbols)
             next == IF s \in DOMAIN counts
                     THEN IF counts[s] <= 1
                          THEN [t \in DOMAIN counts \ {s} |-> counts[t]]
                          ELSE [counts EXCEPT ![s] = @ - 1]
                     ELSE counts
         IN ReleaseCounts(Tail(symbols), next)

RECURSIVE ReleaseRemoved(_, _)
\* unsubscribeFromPolygon, the loop: removeSymbols, in order
ReleaseRemoved(symbols, counts) ==
    IF symbols = <<>> THEN <<>>
    ELSE LET s == Head(symbols)
         IN IF s \in DOMAIN counts
            THEN IF counts[s] <= 1
                 THEN <<s>> \o ReleaseRemoved(Tail(symbols),
                                   [t \in DOMAIN counts \ {s} |-> counts[t]])
                 ELSE ReleaseRemoved(Tail(symbols), [counts EXCEPT ![s] = @ - 1])
            ELSE ReleaseRemoved(Tail(symbols), counts)

\* unsubscribeFromPolygon(symbols) with the upstream connected: the counts
\* under polygonSymbolsLock, then polygonClient.Unsubscribe(removeSymbols),
\* which deletes the symbols from pc.subscriptions and writes the frame
UnsubscribeFromPolygon(symbols) ==
    /\ Alive
    /\ polygonClient = "set" /\ IsConnected
    /\ polygonSymbols' = ReleaseCounts(symbols, polygonSymbols)
    /\ LET removeSymbols == ReleaseRemoved(symbols, polygonSymbols)
       IN IF Len(removeSymbols) > 0
          THEN /\ pcSubscriptions' = pcSubscriptions \ Range(removeSymbols)
               /\ wire' = IF ws = "open"
                          THEN wire (+) SetToBag({Frame("unsubscribe", Range(removeSymbols),
                                                       "unsubscribeFromPolygon")})
                          ELSE wire
          ELSE UNCHANGED <<pcSubscriptions, wire>>
    /\ UNCHANGED <<clients, conn, readPump, send, sendClosed, csubs, subscriptions,
                   handlers, framesRead, broadcast, crashed, mainpc, polygonClient, ws,
                   connected, authenticated, retryCount, reconnectTimer, reader,
                   connectCall, timerpc, resubSymbols, authReply, histVars, sweepVars,
                   batch, web, timerDelay>>

\* ==================================================================== Next
Requests ==
    {<<"subscribe", ch, syms>> : ch \in ReqChannels, syms \in SymbolLists}
    \cup {<<"unsubscribe", ch, <<>>>> : ch \in UnsubChannels}
    \cup {<<"ping", "", <<>>>>}

\* the frames of SpecSteady: also a subscribe to the generic channel
SteadyRequests ==
    Requests \cup {<<"subscribe", "market-data", syms>> : syms \in SymbolLists \ {<<>>}}
             \cup {<<t, "", <<>>>> : t \in IgnoredTypes}

\* the steps of the handler goroutines, the write pumps and the broadcast worker
Workers ==
    \/ \E h \in Running : SubscribeLocal(h)
    \/ \E h \in Running : SubscribeGlobal(h)
    \/ \E h \in Running : SubscribeToPolygonCheck(h)
    \/ \E h \in Running : SubscribeToPolygon(h)
    \/ \E h \in Running : UnsubscribeLocal(h)
    \/ \E h \in Running : UnsubscribeGlobal(h)
    \/ \E h \in Running : SendMessage(h)
    \/ \E c \in Clients : ReadPumpExit(c)
    \/ \E c \in Clients : WritePump(c)
    \/ HandleMessages

\* The whole gateway with one downstream session: the start of main, the
\* upstream session with its failures and reconnects, the session's frames.
Next ==
    \/ HandleWebSocket(ClientSeq[1])
    \/ \E r \in Requests :
          framesRead < UpFrames /\ ReadPumpFrame(ClientSeq[1], r[1], r[2], r[3])
    \/ ConnClosed(ClientSeq[1])
    \/ Workers
    \/ InitPolygonNoKey
    \/ \E ok \in BOOLEAN : InitPolygonConnect(ok)
    \/ \E st \in {"auth_success", "auth_failed"} : ReadStatus(st)
    \/ ConnectReturn
    \/ InitPolygonSubscribe
    \/ TransportLost
    \/ ReadMessagesExit
    \/ \E ok \in BOOLEAN : ReconnectFire(ok)
    \/ ResubscribeCollect
    \/ Resubscribe
    \/ SubscriptionsRace
    \/ \E ev \in EventTypes, sym \in Symbols : nextSeq < UpEvents /\ ReadData(ev, sym)

Spec == Init /\ [][Next]_vars

\* The gateway after initPolygon has returned, with an upstream transport
\* that stays up: either the integration is disabled (no API key) or the
\* upstream session is Ready with the default symbols subscribed.
SteadyInit ==
    /\ clients = {}
    /\ conn = [c \in Clients |-> "none"]
    /\ readPump = [c \in Clients |-> "none"]
    /\ send = [c \in Clients |-> <<>>]
    /\ sendClosed = [c \in Clients |-> FALSE]
    /\ csubs = [c \in Clients |-> {}]
    /\ subscriptions = <<>>
    /\ polygonSymbols = <<>>
    /\ handlers = EmptyBag
    /\ framesRead = 0
    /\ broadcast = <<>>
    /\ crashed = FALSE
    /\ mainpc = "serving"
    /\ retryCount = 0
    /\ reconnectTimer = FALSE
    /\ connectCall = "none"
    /\ timerpc = "idle"
    /\ resubSymbols = <<>>
    /\ authReply = FALSE
    /\ preDisconnect = {}
    /\ nextSeq = 0
    /\ dropped = {}
    /\ slowCount = [c \in Clients |-> 0]
    /\ unsubRead = {}
    /\ lastUnsub = [c \in Clients |-> {}]
    /\ ignoredRead = {}
    /\ disconnectCalled = FALSE
    /\ batch = NoBatch
    /\ timerDelay = 0
    /\ web = NewRailwayWebSocketClient
    /\ stale = [c \in Clients |-> FALSE]
    /\ sweepList = {}
    /\ \/ /\ polygonClient = "nil"
          /\ ws = "none"
          /\ connected = FALSE
          /\ authenticated = FALSE
          /\ reader = FALSE
          /\ pcSubscriptions = {}
          /\ wire = EmptyBag
       \/ /\ polygonClient = "set"
          /\ ws = "open"
          /\ connected = TRUE
          /\ authenticated = TRUE
          /\ reader = TRUE
          /\ pcSubscriptions = Range(defaultSymbols)
          /\ wire = SetToBag({Frame("auth", {}, "authenticate"),
                              Frame("subscribe", Range(defaultSymbols), "initPolygon")})

NextSteady ==
    \/ \E c \in Clients : HandleWebSocket(c)
    \/ \E c \in Clients, r \in SteadyRequests :
          framesRead < MaxFrames /\ ReadPumpFrame(c, r[1], r[2], r[3])
    \/ \E c \in Clients : ConnClosed(c)
    \/ Workers
    \/ \E h \in Running : HandleIgnored(h)
    \/ \E ev \in EventTypes, sym \in Symbols : nextSeq < MaxEvents /\ ReadData(ev, sym)

SpecSteady == SteadyInit /\ [][NextSteady]_vars

\* client frames read and upstream records received in SpecBurst: one
\* record more than the broadcast channel holds
BurstFrames == 2
BurstEvents == 3

\* The gateway of SpecSteady with one downstream session and a burst of
\* upstream records that the broadcast worker and the write pump may not
\* keep up with.
NextBurst ==
    \/ HandleWebSocket(ClientSeq[1])
    \/ \E r \in Requests :
          framesRead < BurstFrames /\ ReadPumpFrame(ClientSeq[1], r[1], r[2], r[3])
    \/ ConnClosed(ClientSeq[1])
    \/ Workers
    \/ \E ev \in EventTypes, sym \in Symbols : nextSeq < BurstEvents /\ ReadData(ev, sym)

SpecBurst == SteadyInit /\ [][NextBurst]_vars

\* client frames read and upstream records received in SpecSweep
SweepFrames == 2
SweepEvents == 1

\* The gateway of SpecSteady with one downstream session and the sweeper:
\* the session goes stale when no frame and no pong arrives.
NextSweep ==
    \/ HandleWebSocket(ClientSeq[1])
    \/ \E r \in Requests :
          framesRead < SweepFrames /\ ReadPumpFrame(ClientSeq[1], r[1], r[2], r[3])
    \/ Workers
    \/ \E ev \in EventTypes, sym \in Symbols : nextSeq < SweepEvents /\ ReadData(ev, sym)
    \/ BecomeStale(ClientSeq[1])
    \/ PongHandler(ClientSeq[1])
    \/ SweepCollect
    \/ SweepClose(ClientSeq[1])

\* the ticker of the sweeper fires every 60s and every goroutine that can
\* run is scheduled
SweepFairness ==
    /\ WF_vars(SweepCollect)
    /\ WF_vars(SweepClose(ClientSeq[1]))
    /\ WF_vars(ReadPumpExit(ClientSeq[1]))
    /\ WF_vars(Workers)

SpecSweep == SteadyInit /\ [][NextSweep]_vars /\ SweepFairness

\* ================================================================== claims
AllChannels == {"trades", "quotes", "aggregates", "market-data"}

\* the key is a subscription of some channel to the symbol s
Covers(key, s) == key \in {ch \o ":" \o s : ch \in AllChannels}

\* the live sessions that hold a subscription covering s
Holders(s) == {c \in clients : \E k \in csubs[c] : Covers(k, s)}

\* no handler of a client frame is running (teardown is one step)
Quiescent == handlers = EmptyBag

\* the upstream session is Ready and known to the handlers
Ready == polygonClient = "set" /\ IsConnected /\ ws = "open"

\* number of frames on the wire with the action, written by the caller, covering s
FramesFor(w, action, by, s) ==
    LET fs == {f \in BagToSet(w) : f.action = action /\ f.by = by /\ s \in f.syms}
        RECURSIVE Sum(_)
        Sum(S) == IF S = {} THEN 0
                  ELSE LET f == CHOOSE x \in S : TRUE
                       IN CopiesIn(f, w) + Sum(S \ {f})
    IN Sum(fs)

\* number of times s occurs in the list
RECURSIVE Occurrences(_, _)
Occurrences(symbols, s) ==
    IF symbols = <<>> THEN 0
    ELSE (IF Head(symbols) = s THEN 1 ELSE 0) + Occurrences(Tail(symbols), s)

\* C1 (refcount soundness): in every quiescent state with the upstream
\* Ready, for every symbol s the count polygonSymbols[s] equals the number
\* of live sessions holding a subscription that covers s, and s is absent
\* from polygonSymbols when that number is 0.
C1_RefcountSoundness ==
    (Quiescent /\ Ready) =>
        \A s \in Symbols :
            IF Holders(s) = {} THEN s \notin DOMAIN polygonSymbols
            ELSE s \in DOMAIN polygonSymbols
                 /\ polygonSymbols[s] = Cardinality(Holders(s))

\* C2: with the upstream Ready, a subscribeToPolygon for a symbol that has
\* no count sets the count (1 for a symbol listed once) and writes exactly
\* one upstream subscribe frame covering it; for a symbol that has a count
\* it only increments the count and writes no frame covering it.  Hence the
\* symbols with a count have exactly one frame written by subscribeToPolygon.
C2_OneUpstreamSubscribe ==
    /\ [](Ready => \A s \in Symbols :
            FramesFor(wire, "subscribe", "subscribeToPolygon", s)
                = IF s \in DOMAIN polygonSymbols THEN 1 ELSE 0)
    /\ [][\A h \in Running :
            (Ready /\ h.pc = "locked" /\ handlers' = Advance(h, "send")) =>
                \A s \in Range(h.symbols) :
                    /\ s \in DOMAIN polygonSymbols'
                    /\ polygonSymbols'[s] =
                         (IF s \in DOMAIN polygonSymbols THEN polygonSymbols[s] ELSE 0)
                         + Occurrences(h.symbols, s)
                    /\ FramesFor(wire', "subscribe", "subscribeToPolygon", s)
                         = FramesFor(wire, "subscribe", "subscribeToPolygon", s)
                           + (IF s \in DOMAIN polygonSymbols THEN 0 ELSE 1)]_vars

\* C2 witness: two distinct sessions hold a subscription covering the same
\* symbol, the count is 2 and one frame was written
C2_Witness ==
    \E s \in Symbols :
        /\ Ready /\ Quiescent
        /\ Cardinality(Holders(s)) = 2
        /\ s \in DOMAIN polygonSymbols /\ polygonSymbols[s] = 2
        /\ FramesFor(wire, "subscribe", "subscribeToPolygon", s) = 1

\* C3: when an unsubscribe of a live session ends with the upstream Ready,
\* for every symbol the unsubscribed key covers: if no live session holds
\* the symbol any more, its count is gone and an upstream unsubscribe frame
\* was written; else the count is still there and no such frame was written.
C3_LastUnsubscribeReleases ==
    [][\A h \in Running :
          ( /\ h.type = "unsubscribe" /\ h.pc = "send" /\ handlers' = Finish(h)
            /\ h.client \in clients /\ Ready ) =>
              \A s \in Symbols :
                  (Covers(h.channel, s) /\ s \in DOMAIN polygonSymbols) =>
                      IF Holders(s) = {}
                      THEN /\ s \notin DOMAIN polygonSymbols'
                           /\ \E f \in BagToSet(wire') :
                                  f.action = "unsubscribe" /\ s \in f.syms
                      ELSE /\ s \in DOMAIN polygonSymbols'
                           /\ ~\E f \in BagToSet(wire') :
                                  f.action = "unsubscribe" /\ s \in f.syms]_vars

\* C4 (upstream parity): once main serves and no handler, Connect or
\* reconnect callback is running, the subscribed symbols of the upstream
\* session are the keys of polygonSymbols.
C4_UpstreamParity ==
    ( /\ mainpc = "serving" /\ polygonClient = "set"
      /\ Quiescent /\ connectCall = "none" /\ timerpc = "idle" ) =>
        pcSubscriptions = DOMAIN polygonSymbols

\* C5 (registry mirror): whenever no handler is running, a live session is
\* in the subscription registry under key K iff K is in its own
\* subscription set.
C5_RegistryMirror ==
    Quiescent =>
        \A c \in clients :
            /\ \A k \in DOMAIN subscriptions : c \in subscriptions[k] => k \in csubs[c]
            /\ \A k \in csubs[c] : k \in DOMAIN subscriptions /\ c \in subscriptions[k]

\* C6 (no routing after teardown): a session for which unregisterClient
\* has returned is a member of no entry of the subscription registry.
C6_NoRoutingAfterTeardown ==
    \A c \in Clients :
        readPump[c] = "done" =>
            \A k \in DOMAIN subscriptions : c \notin subscriptions[k]

\* the broadcast worker takes the message at the head of broadcast
BroadcastStep == broadcast # <<>> /\ broadcast' = Tail(broadcast) /\ handlers' = handlers

\* C7: when the worker broadcasts a trades message of symbol S, every live
\* session registered under the key of its subscribe("trades", [S]), with
\* an open queue that is not full, has the message appended to its queue.
C7_TradeDelivered ==
    [][BroadcastStep =>
          LET msg == Head(broadcast)
          IN msg.channel = "trades" =>
               \A c \in clients :
                   ( /\ SubscribeKey("trades", msg.symbols) \in DOMAIN subscriptions
                     /\ c \in subscriptions[SubscribeKey("trades", msg.symbols)]
                     /\ ~sendClosed[c] /\ Len(send[c]) < SendCap ) =>
                       send'[c] = Append(send[c], msg)]_vars

\* C8 (order preservation): in every send queue the market-data messages
\* of one symbol are in the order in which the read task handed their
\* records to broadcastMessage (seq is the number of the record).
C8_OrderPreserved ==
    \A c \in Clients :
        \A i, j \in 1..Len(send[c]) :
            ( /\ i < j
              /\ send[c][i].type = "market-data" /\ send[c][j].type = "market-data"
              /\ send[c][i].symbols = send[c][j].symbols ) =>
                send[c][i].seq < send[c][j].seq

\* C8 witness: a queue holds two market-data messages of one symbol
C8_Witness ==
    \E c \in Clients :
        /\ Len(send[c]) = 2
        /\ send[c][1].type = "market-data" /\ send[c][2].type = "market-data"
        /\ send[c][1].symbols = send[c][2].symbols
        /\ send[c][1].seq # send[c][2].seq

FramesBy(w, by) ==
    LET fs == {f \in BagToSet(w) : f.by = by}
        RECURSIVE Sum(_)
        Sum(S) == IF S = {} THEN 0
                  ELSE LET f == CHOOSE x \in S : TRUE
                       IN CopiesIn(f, w) + Sum(S \ {f})
    IN Sum(fs)

\* the reconnect callback runs its resubscribe
ResubscribeStep == timerpc = "resubscribe" /\ timerpc' = "idle"

\* the read task has seen no transport failure since the reconnect began
\* (a failure arms the timer again), so preDisconnect is the set of
\* before the disconnect this reconnect answers
SameDisconnect == ~reconnectTimer

\* the upstream session is connected and authenticated on an open transport
UpstreamReady == IsConnected /\ ws = "open"

\* C10 as claimed: when the reconnect callback resubscribes on a Ready
\* session that had symbols before the disconnect, it writes exactly one
\* subscribe frame, covering exactly the symbols of before the
\* disconnect, and the subscribed-symbols set is its value of before the
\* disconnect.
C10_ReconnectRestoresExactly ==
    [][(ResubscribeStep /\ UpstreamReady /\ SameDisconnect /\ preDisconnect # {}) =>
          /\ pcSubscriptions' = preDisconnect
          /\ wire' = wire (+) SetToBag(
                         {Frame("subscribe", preDisconnect, "scheduleReconnect")})]_vars

\* C10 amended: the resubscribe of the reconnect callback leaves the
\* subscribed-symbols set unchanged; the symbols the callback collected
\* include every symbol of before the disconnect and are all in the set;
\* the callback writes one subscribe frame covering exactly the collected
\* symbols when the session is Ready and there are some, and no frame
\* otherwise.
C10_ReconnectResubscribesCurrent ==
    [][ResubscribeStep =>
          /\ pcSubscriptions' = pcSubscriptions
          /\ SameDisconnect => preDisconnect \subseteq Range(resubSymbols)
          /\ Range(resubSymbols) \subseteq pcSubscriptions'
          /\ IF UpstreamReady /\ resubSymbols # <<>>
             THEN /\ wire' = wire (+) SetToBag(
                             {Frame("subscribe", Range(resubSymbols), "scheduleReconnect")})
                  /\ FramesBy(wire', "scheduleReconnect") = 1
             ELSE wire' = wire]_vars

\* C10 witness: after a reconnect the wire holds the batched subscribe of
\* the callback, covering the symbols of before the disconnect
C10_Witness ==
    /\ UpstreamReady /\ timerpc = "idle" /\ SameDisconnect /\ preDisconnect # {}
    /\ pcSubscriptions = preDisconnect
    /\ CopiesIn(Frame("subscribe", preDisconnect, "scheduleReconnect"), wire) = 1

\* the session is torn down: its read pump runs unregisterClient
TeardownStep(c) == readPump[c] = "running" /\ readPump'[c] = "done"

\* the session is a member of no entry of the registry
NotRegistered(reg, c) == \A k \in DOMAIN reg : c \notin reg[k]

\* C11: when a live session is torn down with no handler running and the
\* upstream Ready, the session is afterwards in no entry of the
\* subscription registry, and for every symbol with a count that a
\* subscription of the session covers, the count is one less, or is gone
\* with an upstream unsubscribe frame written when it was 1.
C11_TeardownReleases ==
    [][\A c \in Clients :
          (TeardownStep(c) /\ c \in clients /\ Quiescent /\ Ready) =>
              /\ NotRegistered(subscriptions', c)
              /\ \A s \in Symbols :
                    ((\E k \in csubs[c] : Covers(k, s)) /\ s \in DOMAIN polygonSymbols) =>
                        IF polygonSymbols[s] = 1
                        THEN /\ s \notin DOMAIN polygonSymbols'
                             /\ \E f \in BagToSet(wire') :
                                    f.action = "unsubscribe" /\ s \in f.syms
                        ELSE /\ s \in DOMAIN polygonSymbols'
                             /\ polygonSymbols'[s] = polygonSymbols[s] - 1]_vars

\* the upstream transport has failed, its read task has ended and no
\* Connect and no reconnect callback is running
UpstreamDown ==
    /\ ws = "closed" /\ ~connected /\ ~reader
    /\ connectCall = "none" /\ timerpc = "idle"

\* C12: whenever the upstream session that initPolygon set up is down
\* after a transport error and the attempt counter is below the maximum,
\* a reconnect attempt is scheduled.
C12_ReconnectContinues ==
    (polygonClient = "set" /\ UpstreamDown /\ retryCount < maxRetries) => reconnectTimer

\* Connect has returned the authentication error (it found authenticated
\* unset after the sleep and closed the transport) and the read task of
\* that connection has not ended yet
AuthFailed ==
    /\ connected /\ ~authenticated /\ connectCall = "none"
    /\ reader /\ ws = "closed"

\* C13: after Connect has failed because the authentication did not
\* succeed, no step schedules a reconnect.
C13_AuthFailureTerminal ==
    [][AuthFailed => ~reconnectTimer']_vars

\* the session is closed and gone from the session set and the registry
Evicted(c) ==
    /\ conn[c] = "closed" /\ c \notin clients
    /\ NotRegistered(subscriptions, c)

\* C14 (stale eviction): a registered session whose last-seen time is
\* older than the threshold and stays so is eventually closed, removed
\* from the session set and removed from every entry of the registry
\* (unless a frame or a pong refreshes it, or the process ends).
C14_StaleEvicted ==
    \A c \in Clients :
        (c \in clients /\ stale[c]) ~> (~stale[c] \/ Evicted(c) \/ crashed)

\* C15: when the worker broadcasts an event of symbol S, every live
\* session registered under the key of its subscribe("market-data", [S]),
\* with an open queue that is not full, has the event appended to its queue.
C15_GenericChannelDelivered ==
    [][BroadcastStep =>
          LET msg == Head(broadcast)
              key == SubscribeKey("market-data", msg.symbols)
          IN \A c \in clients :
                 ( /\ key \in DOMAIN subscriptions /\ c \in subscriptions[key]
                   /\ ~sendClosed[c] /\ Len(send[c]) < SendCap ) =>
                     send'[c] = Append(send[c], msg)]_vars

\* C16: every send queue holds at most SendCap messages; a step taken
\* while a queue is full leaves its content unchanged or takes its head
\* (the write pump), so an enqueue on a full queue drops the message; and
\* the send of a handler can always be taken, whatever the length of the
\* queue.
C16_SendQueueBounded ==
    /\ [](\A c \in Clients : Len(send[c]) <= SendCap)
    /\ [][\A c \in Clients :
            Len(send[c]) = SendCap =>
                (send'[c] = send[c] \/ send'[c] = Tail(send[c]))]_vars
    /\ [](\A h \in Running :
            (Alive /\ (h.pc = "send" \/ (h.type = "ping" /\ h.pc = "start"))) =>
                ENABLED SendMessage(h))

\* C16 witness: a send on a full send queue took the default branch and
\* the queue is full
C16_Witness ==
    /\ "send" \in dropped
    /\ \E c \in Clients : ~sendClosed[c] /\ Len(send[c]) = SendCap

\* the read task hands a record to broadcastMessage
ReadDataStep == nextSeq' = nextSeq + 1

\* C17: the broadcast channel holds at most BroadcastCap messages; a
\* record that arrives while it is full is dropped and the content of the
\* channel is unchanged, else the record is appended; and the read task
\* can take the next record whatever the length of the channel.
C17_BroadcastQueueBounded ==
    /\ [](Len(broadcast) <= BroadcastCap)
    /\ [][ReadDataStep =>
            IF Len(broadcast) = BroadcastCap
            THEN broadcast' = broadcast
            ELSE /\ Len(broadcast') = Len(broadcast) + 1
                 /\ SubSeq(broadcast', 1, Len(broadcast)) = broadcast
                 /\ broadcast'[Len(broadcast')].seq = nextSeq']_vars
    /\ []((Alive /\ reader /\ ws = "open") =>
            \A ev \in EventTypes, sym \in WireSubscribed : ENABLED ReadData(ev, sym))

\* C17 witness: a record was dropped on the full broadcast channel, which
\* still holds the records that came before it
C17_Witness ==
    /\ "broadcast" \in dropped
    /\ Len(broadcast) = BroadcastCap
    /\ nextSeq > broadcast[BroadcastCap].seq

\* the session was not torn down and has sent no unsubscribe
Undisturbed(c) == c \in clients /\ c \notin unsubRead

KeysOf(channel) == {channel} \cup {channel \o ":" \o s : s \in Symbols}

\* C19: when the unsubscribe handler of a live session that has no other
\* handler running has updated the registry, which it does before it
\* enqueues the unsubscribed confirmation, the session is in no registry
\* entry of a subscription of that channel.
C19_ConfirmAfterRemove ==
    [][\A h \in Running :
          ( /\ h.type = "unsubscribe" /\ h.pc = "global" /\ handlers' = Advance(h, "send")
            /\ h.client \in clients
            /\ \A g \in Running : g.client = h.client => g = h
            /\ CopiesIn(h, handlers) = 1 ) =>
              \A k \in KeysOf(h.channel) :
                  k \in DOMAIN subscriptions' => h.client \notin subscriptions'[k]]_vars

\* C20: the teardown of a session is unregisterClient applied once; in
\* every state, unregisterClient applied a second time for the same
\* session changes nothing (session set, registry, channel) and the send
\* channel of the session is closed at most once.
C20_TeardownIdempotent ==
    /\ [][\A c \in Clients :
            TeardownStep(c) => Registered' = UnregisterClient(Registered, c)]_vars
    /\ [](\A c \in Clients :
            LET once == UnregisterClient(Registered, c)
                twice == UnregisterClient(once, c)
            IN /\ twice = once
               /\ twice.closes[c] <= 1
               /\ c \notin clients => once = Registered)

\* C20 witness: a session with subscriptions was torn down: it is gone
\* from the session set and the registry and its send channel is closed
C20_Witness ==
    \E c \in Clients :
        /\ readPump[c] = "done" /\ sendClosed[c] /\ c \notin clients
        /\ csubs[c] # {}
        /\ \A k \in csubs[c] : k \in DOMAIN subscriptions /\ c \notin subscriptions[k]

\* the pong message
Pong == Msg("pong", "", <<>>, 0)

C22_BadFrameIgnored ==
    [][\A h \in Running :
          (h.type \in IgnoredTypes /\ handlers' = Finish(h)) =>
              /\ conn' = conn /\ clients' = clients /\ readPump' = readPump
              /\ send' = send /\ sendClosed' = sendClosed
              /\ csubs' = csubs /\ subscriptions' = subscriptions
              /\ polygonSymbols' = polygonSymbols
              /\ wire' = wire /\ broadcast' = broadcast]_vars

\* a session that sent a bad frame is still registered, open and subscribed
\* once its handlers are done
C22_Witness ==
    \E c \in clients :
        /\ c \in ignoredRead
        /\ conn[c] = "open" /\ readPump[c] = "running"
        /\ csubs[c] # {}
        /\ \A h \in Running : h.client # c

\* ----------------------------------------------- upstream frames of records
MaxBatch == 3
BatchEvents == 3

\* the records an upstream frame is made of
BatchRecords == {DataRecord("T", "AAPL"), DataRecord("A", "AAPL"), Undecodable, Syntax}
Batches == UNION {[1..n -> BatchRecords] : n \in 1..MaxBatch}

\* the upstream reader takes frames of several records, the fan-out loop drains
NextBatch ==
    \/ \E b \in Batches : nextSeq + Len(b) <= BatchEvents /\ ReadBatch(b)
    \/ ParseRecord
    \/ HandleMessages

SpecBatch == SteadyInit /\ [][NextBatch]_vars

IsData(r) == r.kind = "data"
HasSyntax(b) == \E i \in 1..Len(b) : b[i].kind = "syntax"
ParseStep == batch' # batch

\* C23 as stated: whatever is wrong with a record of a frame, once the frame
\* is done every data record of it was handed to broadcastMessage, in frame
\* order, and handling the frame leaves the upstream connection as it was.
C23_MalformedRecordDropped ==
    /\ [](BatchIdle => batch.handed = SelectSeq(batch.in, IsData))
    /\ [][ParseStep => (ws' = ws /\ reader' = reader /\ connected' = connected)]_vars

\* C23: a record that is JSON but does not decode is dropped alone: once the
\* frame is done every data record of it was handed to broadcastMessage, in
\* frame order; a frame that is not a JSON array (a record of broken text
\* makes it so) is dropped whole; either way the upstream connection stays
\* as it was.
C23_UndecodableRecordDropped ==
    /\ [](BatchIdle => batch.handed = IF HasSyntax(batch.in) THEN <<>>
                                      ELSE SelectSeq(batch.in, IsData))
    /\ [][ParseStep => (ws' = ws /\ reader' = reader /\ connected' = connected)]_vars

\* a frame with an undecodable record between two data records was handled,
\* and both data records went out
C23_Witness ==
    /\ BatchIdle /\ Len(batch.in) = 3
    /\ IsData(batch.in[1]) /\ batch.in[2] = Undecodable /\ IsData(batch.in[3])
    /\ batch.handed = <<batch.in[1], batch.in[3]>>
    /\ ws = "open" /\ reader

\* C24: a symbol a client subscribed while the upstream was not Ready is in
\* an upstream subscribe of the connection once the upstream is Ready again:
\* with the upstream Ready, the reconnect callback done and no handler
\* running, every symbol a registered client holds is subscribed on the wire.
C24_SubscribeBufferedUntilReady ==
    ( /\ mainpc = "serving" /\ Ready /\ authenticated
      /\ Quiescent /\ connectCall = "none" /\ timerpc = "idle" ) =>
        \A s \in Symbols : Holders(s) # {} => s \in WireSubscribed

\* ------------------------------------------------- the upstream on its own
UpstreamEvents == 2

\* initPolygon, the reader, the reconnect timer and the fan-out loop, with
\* no downstream client
NextUpstream ==
    \/ InitPolygonNoKey
    \/ \E ok \in BOOLEAN : InitPolygonConnect(ok)
    \/ \E st \in {"auth_success", "auth_failed"} : ReadStatus(st)
    \/ ConnectReturn
    \/ InitPolygonSubscribe
    \/ TransportLost
    \/ ReadMessagesExit
    \/ \E ok \in BOOLEAN : ReconnectFire(ok)
    \/ ResubscribeCollect
    \/ Resubscribe
    \/ \E ev \in EventTypes, sym \in Symbols : nextSeq < UpstreamEvents /\ ReadData(ev, sym)
    \/ HandleMessages

\* the steps the program takes by itself are taken: Connect returns after
\* its sleep, a reader whose transport is closed exits, an armed timer
\* fires, the callback resubscribes, the fan-out loop drains; what the
\* upstream answers and when the transport fails is left open
UpstreamFairness ==
    /\ WF_vars(ConnectReturn)
    /\ WF_vars(InitPolygonSubscribe)
    /\ WF_vars(ReadMessagesExit)
    /\ WF_vars(\E ok \in BOOLEAN : ReconnectFire(ok))
    /\ WF_vars(ResubscribeCollect)
    /\ WF_vars(Resubscribe)
    /\ WF_vars(HandleMessages)

SpecUpstream == Init /\ [][NextUpstream]_vars /\ UpstreamFairness

\* the same with one call of Disconnect from outside
NextDisconnect ==
    \/ NextUpstream
    \/ Disconnect

SpecDisconnect == Init /\ [][NextDisconnect]_vars

\* C25: once Disconnect was called no reconnect timer is pending, the
\* transport is not open and the session is marked disconnected, in every
\* later state.
C25_DisconnectStays ==
    disconnectCalled => (~reconnectTimer /\ ws # "open" /\ ~connected)

\* C26: no upstream subscribe frame is written for a symbol that a
\* subscribe frame of the current connection already covers, the frame of
\* the default symbols included.
C26_NoDuplicateUpstreamSubscribe ==
    [][\A f \in BagToSet(wire') :
          (f.action = "subscribe" /\ CopiesIn(f, wire') > CopiesIn(f, wire)) =>
              f.syms \cap WireSubscribed = {}]_vars

\* ------------------------------------------- the registry with its release
RegistryFrames == 2
RegistryEvents == 1

\* symbol lists unsubscribeFromPolygon is called with
ReleaseLists == {<<"AAPL">>, <<"MSFT">>, <<"MSFT", "MSFT">>, <<"AAPL", "MSFT">>}

\* one client whose subscribes acquire symbols, upstream data, and
\* unsubscribeFromPolygon called from outside the handlers (the program has
\* no caller of it)
NextRegistry ==
    \/ HandleWebSocket(ClientSeq[1])
    \/ \E r \in Requests :
          framesRead < RegistryFrames /\ ReadPumpFrame(ClientSeq[1], r[1], r[2], r[3])
    \/ ConnClosed(ClientSeq[1])
    \/ Workers
    \/ \E symbols \in ReleaseLists : UnsubscribeFromPolygon(symbols)
    \/ \E ev \in EventTypes, sym \in Symbols : nextSeq < RegistryEvents /\ ReadData(ev, sym)

SpecRegistry == SteadyInit /\ [][NextRegistry]_vars

\* C27: every entry of polygonSymbols has a count of at least 1, and a
\* release, whatever symbols it names, leaves it so: a symbol with no entry
\* gets none and is in no upstream unsubscribe, and a release that names
\* only symbols with no entry changes no count and unsubscribes nothing.
C27_CountsPositive ==
    /\ \A s \in DOMAIN polygonSymbols : polygonSymbols[s] >= 1
    /\ \A symbols \in ReleaseLists :
          LET after == ReleaseCounts(symbols, polygonSymbols)
              removeSymbols == ReleaseRemoved(symbols, polygonSymbols)
          IN /\ \A s \in DOMAIN after : after[s] >= 1
             /\ \A s \in Symbols \ DOMAIN polygonSymbols :
                   s \notin DOMAIN after /\ s \notin Range(removeSymbols)
             /\ Range(symbols) \cap DOMAIN polygonSymbols = {} =>
                   (after = polygonSymbols /\ removeSymbols = <<>>)

\* a release has removed an entry and unsubscribed the symbol upstream, the
\* symbol has no entry now, and another symbol still has one
C27_Witness ==
    /\ \E f \in BagToSet(wire) :
          /\ f.action = "unsubscribe" /\ f.by = "unsubscribeFromPolygon"
          /\ \E s \in f.syms : s \notin DOMAIN polygonSymbols
    /\ DOMAIN polygonSymbols # {}

C29_ResetOnAuthSuccess ==
    [][(retryCount # 0 /\ retryCount' = 0) => authenticated']_vars

\* the reconnect timer fires and its callback dials
ReconnectAttempt == reconnectTimer /\ ~reconnectTimer'

C31_SlowConsumerClosed ==
    (Quiescent /\ broadcast = <<>>) =>
        \A c \in Clients :
            slowCount[c] >= SlowCap => (c \notin clients \/ conn[c] = "closed")

\* the (session, key) pairs that reference symbol s
KeyHolds(s) ==
    {p \in Clients \X UNION {csubs[c] : c \in Clients} :
        p[2] \in csubs[p[1]] /\ Covers(p[2], s)}

\* C32: a subscribe for a key the session already holds acquires nothing:
\* as long as no session has unsubscribed, the count of a symbol is at most
\* the number of (session, key) pairs that reference it.
C32_SubscribeIdempotent ==
    unsubRead = {} =>
        \A s \in DOMAIN polygonSymbols : polygonSymbols[s] <= Cardinality(KeyHolds(s))

\* C33: a session whose two frames were a subscribe on channel trades and
\* then the unsubscribe of trades is, once both handlers are done, where it
\* was before as far as symbols go: it holds no key of a symbol, it is in no
\* entry of the Subscription Registry for a symbol, and the symbol counts
\* are empty again.
C33_UnsubscribeInverts ==
    \A c \in clients :
        (Quiescent /\ framesRead = 2 /\ "trades" \in lastUnsub[c]) =>
            /\ \A s \in Symbols :
                  /\ SubscribeKey("trades", <<s>>) \notin csubs[c]
                  /\ SubscribeKey("trades", <<s>>) \in DOMAIN subscriptions =>
                        c \notin subscriptions[SubscribeKey("trades", <<s>>)]
            /\ polygonSymbols = <<>>

\* ------------------------------------------ subscribes with several symbols
MultiFrames == 2
MultiEvents == 1

\* the requests of a client that also subscribes to two symbols at once
MultiRequests == Requests \cup {<<"subscribe", "trades", <<"AAPL", "MSFT">>>>}

NextMulti ==
    \/ HandleWebSocket(ClientSeq[1])
    \/ \E r \in MultiRequests :
          framesRead < MultiFrames /\ ReadPumpFrame(ClientSeq[1], r[1], r[2], r[3])
    \/ ConnClosed(ClientSeq[1])
    \/ Workers
    \/ \E ev \in EventTypes, sym \in Symbols : nextSeq < MultiEvents /\ ReadData(ev, sym)

SpecMulti == SteadyInit /\ [][NextMulti]_vars

\* C34: the keys registered match the symbols acquired: as long as no
\* session has unsubscribed, every symbol with a count is the symbol of a
\* key (trades, symbol) that some session holds.
C34_KeyPerSymbol ==
    unsubRead = {} =>
        \A s \in DOMAIN polygonSymbols :
            \E c \in Clients : SubscribeKey("trades", <<s>>) \in csubs[c]

\* C35: a subscribe frame is written upstream only in a step that starts
\* with the session connected and authenticated, and a step that starts
\* otherwise leaves the subscribed-symbols set as it is, whoever calls
\* PolygonClient.Subscribe in it.
C35_SubscribeOnlyWhenReady ==
    [][/\ \A f \in BagToSet(wire') :
             (f.action = "subscribe" /\ CopiesIn(f, wire') > CopiesIn(f, wire)) =>
                 (connected /\ authenticated)
       /\ ~(connected /\ authenticated) => pcSubscriptions' = pcSubscriptions]_vars

\* subscribeToPolygon counted a symbol and called Subscribe for it after the
\* session had stopped being Ready: the call was refused, the symbol is not
\* in the subscribed-symbols set and in no frame
C35_Witness ==
    /\ ~crashed
    /\ \E s \in DOMAIN polygonSymbols : s \notin pcSubscriptions /\ s \notin WireSubscribed

\* C36: no frame is written upstream inside a critical section of
\* polygonSymbolsLock: a step that changes the symbol counts, which is a
\* section of that lock, leaves the upstream transport as it is.
C36_NoWriteUnderRegistryLock ==
    [][polygonSymbols' # polygonSymbols => wire' = wire]_vars

\* a handler's sendMessage, or the fan-out loop, sends on a send channel
\* that unregisterClient has closed
SendOnClosed ==
    \/ \E h \in Running :
          /\ h.pc = "send" \/ (h.type = "ping" /\ h.pc = "start")
          /\ handlers' = Finish(h)
          /\ sendClosed[h.client]
    \/ /\ broadcast # <<>> /\ broadcast' = Tail(broadcast)
       /\ Head(broadcast).channel \in DOMAIN subscriptions
       /\ \E c \in subscriptions[Head(broadcast).channel] : sendClosed[c]

\* C37: no step sends on the outbound queue of a session after teardown has
\* closed it, neither the reply of one of its handlers nor the fan-out loop.
C37_NoSendAfterClose ==
    [][~SendOnClosed]_vars

\* C38: intents take effect in the order their frames were read: when the
\* last frame read from a session for key K is the unsubscribe of K, then,
\* once the handlers are done, the session does not hold K and is not in
\* the Subscription Registry entry of K.
C38_IntentsInReadOrder ==
    \A c \in clients :
        Quiescent =>
            \A K \in lastUnsub[c] :
                /\ K \notin csubs[c]
                /\ K \in DOMAIN subscriptions => c \notin subscriptions[K]

\* ================================================== RailwayWebSocketClient
\* send(message): queued when the status is not connected or ws is null; a
\* WebSocket that is still CONNECTING throws on send, and the catch queues
\* the message too; an OPEN one takes it, a CLOSING or CLOSED one discards it
WebSend(w, m) ==
    IF w.status # "connected" \/ w.ws = 0
    THEN [w EXCEPT !.messageQueue = Append(@, m)]
    ELSE IF w.socks[w.ws] = "connecting"
         THEN [w EXCEPT !.messageQueue = Append(@, m)]
         ELSE w

RECURSIVE WebSendAll(_, _, _)
\* resubscribeAll: sendSubscription for each of the n subscriptions
WebSendAll(w, n, m) ==
    IF n = 0 THEN w ELSE WebSendAll(WebSend(w, m), n - 1, m)

\* scheduleReconnect: nothing at maxReconnectAttempts, else count and arm
ScheduleReconnect(w) ==
    IF w.reconnectAttempts >= maxReconnectAttempts THEN w
    ELSE [w EXCEPT !.reconnectAttempts = @ + 1, !.reconnectTimer = TRUE]

FreeSockets(w) == {i \in SocketIds : w.socks[i] = "none"}
AlreadyOpen(w) == w.ws # 0 /\ w.socks[w.ws] = "open"

\* connect(): return when this.ws is OPEN, else status connecting and a new
\* WebSocket with the event handlers
ConnectCall(w) ==
    IF AlreadyOpen(w) THEN w
    ELSE LET i == CHOOSE j \in FreeSockets(w) : \A k \in FreeSockets(w) : j <= k
         IN [w EXCEPT !.status = "connecting", !.ws = i, !.socks[i] = "connecting"]

\* connect() called from outside
RailwayConnect ==
    /\ ~web.flushing
    /\ AlreadyOpen(web) \/ FreeSockets(web) # {}
    /\ web' = [ConnectCall(web) EXCEPT !.disconnectCalled = FALSE]
    /\ UNCHANGED serverVars

\* the reconnect timer fires: connect()
ReconnectTimerFire ==
    /\ ~web.flushing
    /\ web.reconnectTimer
    /\ AlreadyOpen(web) \/ FreeSockets(web) # {}
    /\ web' = ConnectCall([web EXCEPT !.reconnectTimer = FALSE])
    /\ UNCHANGED serverVars

\* disconnect()
RailwayDisconnect ==
    /\ ~web.flushing
    /\ web' = [web EXCEPT
                 !.reconnectTimer = FALSE,
                 !.heartbeatTimer = FALSE,
                 !.socks = IF web.ws # 0 /\ web.socks[web.ws] \in {"connecting", "open"}
                           THEN [@ EXCEPT ![web.ws] = "closing"] ELSE @,
                 !.ws = 0,
                 !.subscriptions = 0,
                 !.messageQueue = <<>>,
                 !.status = "disconnected",
                 !.disconnectCalled = TRUE]
    /\ UNCHANGED serverVars

\* subscribe(channel, symbols, callback)
RailwaySubscribe ==
    /\ ~web.flushing
    /\ web.subscriptions < WebSubscriptions /\ Len(web.messageQueue) < WebQueueCap
    /\ LET w == [web EXCEPT !.subscriptions = @ + 1]
       IN web' = IF web.status = "connected" THEN WebSend(w, "subscribe") ELSE w
    /\ UNCHANGED serverVars

\* unsubscribe(subscriptionId) of an existing subscription
RailwayUnsubscribe ==
    /\ ~web.flushing
    /\ web.subscriptions > 0 /\ Len(web.messageQueue) < WebQueueCap
    /\ LET w == IF web.status = "connected" THEN WebSend(web, "unsubscribe") ELSE web
       IN web' = [w EXCEPT !.subscriptions = @ - 1]
    /\ UNCHANGED serverVars

\* ws.onopen of socket i: status, counter, heartbeat, resubscribeAll, and the
\* entry into the loop of flushMessageQueue
OnOpen(i) ==
    /\ ~web.flushing
    /\ web.socks[i] = "connecting"
    /\ LET w1 == [web EXCEPT !.socks[i] = "open", !.status = "connected",
                             !.reconnectAttempts = 0, !.heartbeatTimer = TRUE]
           w2 == WebSendAll(w1, w1.subscriptions, "subscribe")
       IN web' = [w2 EXCEPT !.flushing = Len(w2.messageQueue) > 0,
                            !.flushLen = Len(w2.messageQueue),
                            !.flushIter = 0]
    /\ UNCHANGED serverVars

\* flushMessageQueue, one turn of the while loop: shift, send
FlushMessageQueue ==
    /\ web.flushing
    /\ web.flushIter < MaxFlush
    /\ LET m == Head(web.messageQueue)
           w == WebSend([web EXCEPT !.messageQueue = Tail(@)], m)
       IN web' = [w EXCEPT !.flushIter = @ + 1,
                           !.flushing = Len(w.messageQueue) > 0]
    /\ UNCHANGED serverVars

\* ws.onclose of socket i, whatever closed it
OnClose(i) ==
    /\ ~web.flushing
    /\ web.socks[i] \in {"connecting", "open", "closing"}
    /\ web' = ScheduleReconnect([web EXCEPT !.socks[i] = "closed",
                                            !.status = "disconnected",
                                            !.heartbeatTimer = FALSE])
    /\ UNCHANGED serverVars

\* ws.onerror of socket i
OnError(i) ==
    /\ ~web.flushing
    /\ web.socks[i] \in {"connecting", "open"}
    /\ web.status # "error"
    /\ web' = [web EXCEPT !.status = "error"]
    /\ UNCHANGED serverVars

\* the heartbeat interval fires: send a ping
HeartbeatTick ==
    /\ ~web.flushing
    /\ web.heartbeatTimer
    /\ Len(web.messageQueue) < WebQueueCap
    /\ web' = WebSend(web, "ping")
    /\ UNCHANGED serverVars

NextWeb ==
    \/ RailwayConnect
    \/ ReconnectTimerFire
    \/ RailwayDisconnect
    \/ RailwaySubscribe
    \/ RailwayUnsubscribe
    \/ \E i \in SocketIds : OnOpen(i)
    \/ FlushMessageQueue
    \/ \E i \in SocketIds : OnClose(i)
    \/ \E i \in SocketIds : OnError(i)
    \/ HeartbeatTick

SpecWeb == Init /\ [][NextWeb]_vars

\* C39: after disconnect() the browser client stays disconnected until
\* connect() is called again: no reconnect timer is pending and the client
\* has made no new socket.
C39_WebDisconnectStays ==
    web.disconnectCalled => (~web.reconnectTimer /\ web.ws = 0)

\* C40: flushMessageQueue attempts each message that was queued when it
\* began at most once: its loop never takes more turns than that.
C40_FlushTerminates ==
    web.flushIter <= web.flushLen

====
